---- MODULE Spec2Model ----
(***************************************************************************)
(* Model of the packaging descriptor setup.py of law-memo-pdf-to-epub.     *)
(*                                                                         *)
(* setup.py is one call of setuptools' setup() with five keyword           *)
(* arguments.  The model records that call (the distribution object it     *)
(* builds) and then lets an installer act on a target environment,         *)
(* driven only by the recorded keyword arguments: install_requires are     *)
(* resolved against the environment and a package index, py_modules and    *)
(* packages are copied to the import path, scripts are copied from the     *)
(* source tree to the command path.  The installer may take these steps    *)
(* in any order (pip resolves requirements first, setup.py install         *)
(* resolves them last), so the order is left open.                         *)
(***************************************************************************)
EXTENDS Naturals, FiniteSets

\* Number of things in the target environment that no setup() argument names.
MaxUnrelated == 2

\* Commands that can be on the command path of the target environment.
AllCommands == {"law-memo-pdf-to-epub", "other-command"}

\* Importable modules that can be on the import path of the target environment.
AllModules == {"some_module"}

\* Distributions a requirement can name (those of setup.py line 10).
AllDists == {"pdfminer.six", "ebooklib"}

VARIABLES
    pc,         \* "start", "configured", "installed" or "error"
    dist,       \* the keyword arguments setup() was called with, or NoDist
    calls,      \* how many times setup() has been called
    done,       \* installer steps completed: subset of {"lib", "scripts"}
    pending,    \* requirements of install_requires not yet resolved
    err,        \* "none", "missing_script" or "dep_unavailable"
    bin,        \* commands on the command path
    mods,       \* modules on the import path
    dists,      \* of AllDists, the distributions installed
    unrelated,  \* everything else in the environment
    index,      \* distributions the package index can deliver
    bin0, mods0, dists0, unrelated0   \* the environment before installation

vars == <<pc, dist, calls, done, pending, err, bin, mods, dists, unrelated,
          index, bin0, mods0, dists0, unrelated0>>

\* ---------------------------------------------------------------- setup.py

\* A name normalised the way a module name would be.
name_Normalised == "law_memo_pdf_to_epub"

\* setup.py line 6
name == "law-memo-pdf-to-epub"

\* A version read from the environment instead of being a literal.
version_FromEnv == IF "ebooklib" \in dists0 THEN "1.0" ELSE ""

\* setup.py line 7
version == "1.0"

\* A module shipped next to the script.
py_modules_WithModule == {"law_memo_pdf_to_epub"}

\* setup.py line 8: py_modules = []
py_modules == {}

\* A second script, or a script under another file name.
scripts_Two == {"law-memo-pdf-to-epub", "other-command"}
scripts_Renamed == {"law-memo-pdf-to-epub.py"}

\* setup.py line 9
scripts == {"law-memo-pdf-to-epub"}

\* One requirement forgotten.
install_requires_OnlyPdf == {"pdfminer.six"}

\* setup.py line 10
install_requires == {"pdfminer.six", "ebooklib"}

\* The keyword arguments of the one setup() call.  packages and entry_points
\* are not passed, so they have setuptools' defaults (nothing).
SetupArgs ==
    [ name             |-> name,
      version          |-> version,
      py_modules       |-> py_modules,
      scripts          |-> scripts,
      install_requires |-> install_requires,
      packages         |-> {},
      entry_points     |-> {} ]

\* The distribution object before setup() has run.
NoDist ==
    [ name             |-> "",
      version          |-> "",
      py_modules       |-> {},
      scripts          |-> {},
      install_requires |-> {},
      packages         |-> {},
      entry_points     |-> {} ]

\* The files of the repository's source tree: the descriptor and the script
\* it declares.  Only the script's presence matters here, not its text.
SourceTree == {"setup.py", "law-memo-pdf-to-epub"}

\* ------------------------------------------------------------------- state

Init ==
    /\ pc = "start"
    /\ dist = NoDist
    /\ calls = 0
    /\ done = {}
    /\ pending = {}
    /\ err = "none"
    /\ bin \in SUBSET AllCommands
    /\ mods \in SUBSET AllModules
    /\ dists \in SUBSET AllDists
    /\ unrelated \in SUBSET (1..MaxUnrelated)
    /\ index \in SUBSET AllDists
    /\ bin0 = bin
    /\ mods0 = mods
    /\ dists0 = dists
    /\ unrelated0 = unrelated

TypeOK ==
    /\ pc \in {"start", "configured", "installed", "error"}
    /\ calls \in Nat
    /\ done \subseteq {"lib", "scripts"}
    /\ pending \subseteq dist.install_requires
    /\ err \in {"none", "missing_script", "dep_unavailable"}
    /\ mods0 \subseteq AllModules
    /\ bin0 \subseteq AllCommands
    /\ dists0 \subseteq AllDists
    /\ unrelated \subseteq 1..MaxUnrelated
    /\ index \subseteq AllDists

\* A module body that could run its setup() call again.
SetupGuard_Reentrant == pc \in {"start", "configured"}

\* The module body runs once, top to bottom.
SetupGuard == pc = "start"

\* Executing setup.py: the import, then the one setup() call.
SetupPy ==
    /\ SetupGuard
    /\ dist' = SetupArgs
    /\ calls' = calls + 1
    /\ pending' = SetupArgs.install_requires
    /\ done' = {}
    /\ pc' = "configured"
    /\ UNCHANGED <<err, bin, mods, dists, unrelated, index,
                   bin0, mods0, dists0, unrelated0>>

\* py_modules (and packages) are copied to the import path.
InstallLib ==
    /\ pc = "configured"
    /\ "lib" \notin done
    /\ mods' = mods \cup dist.py_modules \cup dist.packages
    /\ done' = done \cup {"lib"}
    /\ UNCHANGED <<pc, dist, calls, pending, err, bin, dists, unrelated, index,
                   bin0, mods0, dists0, unrelated0>>

\* Each file of scripts is copied from the source tree to the command path;
\* a listed file the source tree does not hold is an error.
InstallScripts ==
    /\ pc = "configured"
    /\ "scripts" \notin done
    /\ IF dist.scripts \subseteq SourceTree
       THEN /\ bin' = bin \cup dist.scripts \cup dist.entry_points
            /\ done' = done \cup {"scripts"}
            /\ UNCHANGED <<pc, err>>
       ELSE /\ pc' = "error"
            /\ err' = "missing_script"
            /\ UNCHANGED <<bin, done>>
    /\ UNCHANGED <<dist, calls, pending, mods, dists, unrelated, index,
                   bin0, mods0, dists0, unrelated0>>

\* One requirement of install_requires is resolved: present already, or
\* delivered by the index, or the installation fails.
InstallRequirement(r) ==
    /\ pc = "configured"
    /\ r \in pending
    /\ IF r \in dists
       THEN /\ pending' = pending \ {r}
            /\ UNCHANGED <<dists, pc, err>>
       ELSE IF r \in index
       THEN /\ pending' = pending \ {r}
            /\ dists' = dists \cup {r}
            /\ UNCHANGED <<pc, err>>
       ELSE /\ pc' = "error"
            /\ err' = "dep_unavailable"
            /\ UNCHANGED <<pending, dists>>
    /\ UNCHANGED <<dist, calls, done, bin, mods, unrelated, index,
                   bin0, mods0, dists0, unrelated0>>

\* setup() returns once every step it asked for has been taken.
Finish ==
    /\ pc = "configured"
    /\ done = {"lib", "scripts"}
    /\ pending = {}
    /\ pc' = "installed"
    /\ UNCHANGED <<dist, calls, done, pending, err, bin, mods, dists, unrelated,
                   index, bin0, mods0, dists0, unrelated0>>

Next ==
    \/ SetupPy
    \/ InstallLib
    \/ InstallScripts
    \/ \E r \in AllDists : InstallRequirement(r)
    \/ Finish

Spec == Init /\ [][Next]_vars

\* ------------------------------------------------------------- properties

\* The command this package is about.
Command == "law-memo-pdf-to-epub"

\* C1: the setup() call declares exactly one script, law-memo-pdf-to-epub,
\* and no entry point; once installed, that command is on the command path
\* and it is the only command the installation added.
C1_OneCommand ==
    /\ pc # "start" =>
          /\ dist.scripts = {"law-memo-pdf-to-epub"}
          /\ Cardinality(dist.scripts) = 1
          /\ dist.entry_points = {}
    /\ pc = "installed" =>
          /\ "law-memo-pdf-to-epub" \in bin
          /\ bin \ bin0 \subseteq {"law-memo-pdf-to-epub"}

\* C1 witness: an installation that added the command to a command path
\* that already held another command.
C1_Witness ==
    /\ pc = "installed"
    /\ bin0 = {"other-command"}
    /\ bin = {"other-command", "law-memo-pdf-to-epub"}

\* C2: the setup() call declares exactly the two requirements pdfminer.six
\* and ebooklib; in every installed state where the command is available,
\* both are installed.
C2_TwoDependencies ==
    /\ pc # "start" =>
          /\ dist.install_requires = {"pdfminer.six", "ebooklib"}
          /\ Cardinality(dist.install_requires) = 2
    /\ (pc = "installed" /\ Command \in bin) =>
          {"pdfminer.six", "ebooklib"} \subseteq dists

\* C2 witness: an installation into an environment that had neither
\* dependency, which fetched both and made the command available.
C2_Witness ==
    /\ pc = "installed"
    /\ dists0 = {}
    /\ dists = {"pdfminer.six", "ebooklib"}
    /\ Command \in bin

C4_NameAndVersion ==
    pc # "start" =>
        /\ dist.version = "1.0"
        /\ dist.version # ""
        /\ dist.name = "law-memo-pdf-to-epub"

\* C4 witness: setup() has run in an environment without ebooklib, with
\* unrelated content and with an empty package index.
C4_Witness ==
    /\ pc = "configured"
    /\ calls = 1
    /\ "ebooklib" \notin dists0
    /\ unrelated0 # {}
    /\ index = {}

C8_NameIsScript ==
    /\ pc # "start" => dist.scripts = {dist.name}
    /\ pc = "installed" => (dist.name \in bin /\ bin \ bin0 \subseteq {dist.name})

\* C8 witness: an installation that added a command named as the package.
C8_Witness ==
    /\ pc = "installed"
    /\ dist.name \in bin \ bin0
    /\ dist.name = "law-memo-pdf-to-epub"

====
